---- MODULE Spec2Model ----
(***************************************************************************)
(* Model of the orbiq_system_monitor daemon (src/src/main.rs): the publish *)
(* task (discovery / availability / state / refresh / offline marking),    *)
(* the MQTT event-loop supervisor and the top-level select that races both *)
(* against Ctrl-C.  Every .await of the publish task is one step, so that  *)
(* process exit and signal delivery can interleave where the runtime lets  *)
(* them.  A publish call is a call of the transport: it returns Ok or Err, *)
(* chosen by the environment.                                              *)
(***************************************************************************)
EXTENDS Integers, Sequences, FiniteSets, TLC

\* ---------------------------------------------------------------- bounds
MaxTempSensors == 1      \* longest temperature snapshot
MaxCycles == 20          \* the orchestrator starts no more iterations than this
EdgeWidth == 7           \* counter halves are drawn this close to 0 and to 65535
MaxDevices == 2          \* most directories under /sys/class/hwmon
MaxFiles == 2            \* most entries of one hwmon directory
MaxChunks == 2           \* a sensor name is made of at most this many pieces

\* ------------------------------------------------------ program constants
RefreshEvery == 20       \* main.rs:130  cycle_counter % 20

\* ------------------------------------------------------------ the sensors
\* temperature_sensor.rs:106  name = "<device.name>_<n>"; two hwmon devices
\* may report the same device name, so a snapshot may repeat a name.
TempNames == {"k10temp_1", "nvme_1"}

\* system_sensor.rs:42-49  the first sensor every call returns.  The three
\* memory sensors (system_sensor.rs:60-79) are pushed unconditionally right
\* after it and take the same path through every loop; cpu_usage stands for
\* the four.
FixedSystemNames == <<"cpu_usage">>

\* system_sensor.rs:104-109  the first sensor pushed for a mounted disk (mount
\* point /); disk_used_root and disk_total_root (system_sensor.rs:111-123)
\* come and go with it.
DiskSystemNames == <<"disk_usage_root">>

\* temperature_sensor.rs:22-38  every list of readable sensors, also empty
collect_all_temperatures ==
    UNION {[1..m -> TempNames] : m \in 0..MaxTempSensors}

\* system_sensor.rs:36-127  the fixed sensors, then those of the mounted disks
collect_system_stats ==
    {FixedSystemNames, FixedSystemNames \o DiskSystemNames}

\* ------------------------------------------------------------------ state
VARIABLES
    pc,                        \* position of publish_task
    i,                         \* index of the current loop
    temp_sensors,              \* main.rs:49 / 166
    system_sensors,            \* main.rs:50 / 173
    published_temp_sensors,    \* main.rs:43
    published_system_sensors,  \* main.rs:44
    cycle_counter,             \* main.rs:46
    orchSignalled,             \* the ctrl_c() of the select at main.rs:164 is ready
    mainSignalled,             \* the ctrl_c() of the select at main.rs:210 is ready
    supervisor,                \* position of the eventloop.poll() loop
    exited,                    \* main() has returned
    log,                       \* publish calls since the last collect_all_temperatures()
    discoveredOk,              \* identities whose discovery publish returned Ok
    last_result,               \* result of the publish call of the last step
    signalMidCycle,            \* a SIGINT came while publish_task was inside a cycle
    input,                     \* argument of the function under study
    output                     \* what the function returned for it

vars == <<pc, i, temp_sensors, system_sensors, published_temp_sensors,
          published_system_sensors, cycle_counter, orchSignalled,
          mainSignalled, supervisor, exited, log, discoveredOk,
          last_result, signalMidCycle, input, output>>

orchVars == <<pc, i, temp_sensors, system_sensors, published_temp_sensors,
              published_system_sensors, cycle_counter, log, discoveredOk,
              last_result>>

envVars == <<orchSignalled, mainSignalled, supervisor, exited, signalMidCycle>>

snapshotVars == <<temp_sensors, system_sensors>>

setVars == <<published_temp_sensors, published_system_sensors, discoveredOk>>

\* used by the specifications of single functions only; the daemon never
\* touches them
pureVars == <<input, output>>

Event(k, g, e, n) == [k |-> k, g |-> g, e |-> e, n |-> n]

ProgramInit ==
    /\ pc = "start"
    /\ i = 0
    /\ temp_sensors = <<>>
    /\ system_sensors = <<>>
    /\ published_temp_sensors = {}
    /\ published_system_sensors = {}
    /\ cycle_counter = 0
    /\ orchSignalled = FALSE
    /\ mainSignalled = FALSE
    /\ supervisor = "polling"
    /\ exited = FALSE
    /\ log = <<>>
    /\ discoveredOk = {}
    /\ last_result = "none"
    /\ signalMidCycle = FALSE

Init ==
    /\ ProgramInit
    /\ input = <<>>
    /\ output = <<>>

\* ------------------------------------------- decisions of the publish task
\* the contains() test left out: discovery is published in every cycle
NeedsDiscoveryAlways(published, name) == TRUE

\* no sensor is ever found to need discovery
NeedsDiscoveryNever(published, name) == FALSE

\* main.rs:67 and main.rs:92   if !published.contains(&name)
NeedsDiscovery(published, name) == name \notin published

\* the insert moved in front of the publish result
InsertAlways(published, name, ok) == published \cup {name}

\* the insert moved into the Err branch of the match
InsertOnFailure(published, name, ok) ==
    IF ok THEN published ELSE published \cup {name}

\* the set rebuilt from the newly discovered name instead of extended
InsertReplaces(published, name, ok) ==
    IF ok THEN {name} ELSE published

\* main.rs:69-72 and main.rs:93-103   insert only in the else (Ok) branch
InsertOnSuccess(published, name, ok) ==
    IF ok THEN published \cup {name} ELSE published

\* the availability publish after discovery left out
AfterTempDiscoverySkipsAvailability(ok) == "t_delay"

\* main.rs:69-81   Ok: availability follows; Err: straight to the delay
AfterTempDiscovery(ok) == IF ok THEN "t_avail" ELSE "t_delay"

\* main.rs:93-117  Ok: 50 ms pause, then availability; Err: the delay
AfterSystemDiscovery(ok) == IF ok THEN "s_pause" ELSE "s_delay"

\* an Err of publish propagated with ? out of the loop
OnPublishResultAbort(ok, next) == IF ok THEN next ELSE <<"done", 0>>

\* a failed availability publish sends the entry back to its discovery
OnPublishResultRediscover(ok, next) ==
    IF ok \/ next[1] # "t_delay" THEN next ELSE <<"t_disc", next[2]>>

\* main.rs:74-78, 84-86, 106-115, 123-125, 134-143, 147-156, 168-170, 175-177
\* an Err of publish is printed and the task goes on where Ok goes on;
\* next is the position <<pc, i>> that follows the call
OnPublishResult(ok, next) == next

\* main.rs:46   0u32: the counter is 32 bits wide.  2^32 is beyond the integers
\* of the model checker, so a u32 is held as two 16-bit halves <<high, low>>.
HalfBase == 65536

U32Max == <<HalfBase - 1, HalfBase - 1>>

ToU32(c) == <<c \div HalfBase, c % HalfBase>>

\* only for values below 2^31
FromU32(w) == w[1] * HalfBase + w[2]

U32Less(a, b) == a[1] < b[1] \/ (a[1] = b[1] /\ a[2] < b[2])

\* main.rs:129   += 1 as a build without overflow checks computes it
WrappingAddOne(w) ==
    IF w[2] + 1 < HalfBase THEN <<w[1], w[2] + 1>>
    ELSE IF w[1] + 1 < HalfBase THEN <<w[1] + 1, 0>>
    ELSE <<0, 0>>

\* main.rs:129   cycle_counter += 1 on a u32: at 4294967295 a build with
\* overflow checks (the dev profile) panics in publish_task, a build without
\* them (the release profile) wraps to 0
AddAssignOne(w, overflow_checks) ==
    IF w = U32Max /\ overflow_checks
    THEN [value |-> w, panicked |-> TRUE]
    ELSE [value |-> WrappingAddOne(w), panicked |-> FALSE]

\* main.rs:129   the counter of the daemon model stays at or below MaxCycles,
\* where every build computes the same
Increment(c) == FromU32(AddAssignOne(ToU32(c), FALSE).value)

\* the refresh test made on the counter before its increment
IsRefreshCycleBeforeIncrement(c) == (c - 1) % RefreshEvery = 0

\* main.rs:130   if cycle_counter % 20 == 0
IsRefreshCycle(c) == c % RefreshEvery = 0

\* the break left out: the loop goes round again after the offline pass
AfterOfflinePassContinue == "collect"

\* main.rs:180   break
AfterOfflinePass == "done"

\* first entry at or after j of the system list that needs discovery
\* (main.rs:91-92), 0 when there is none
NextUndiscovered(ss, published, j) ==
    LET todo == {k \in j..Len(ss) : NeedsDiscovery(published, ss[k])}
    IN  IF todo = {} THEN 0 ELSE CHOOSE k \in todo : \A m \in todo : k <= m

\* the state loop stops one entry early
SystemStateAtSkipsLast(ss, j) ==
    IF j < Len(ss) THEN <<"s_state", j>> ELSE <<"incr", 0>>

\* main.rs:121   the state loop over system_sensors, or past it when empty
SystemStateAt(ss, j) ==
    IF j <= Len(ss) THEN <<"s_state", j>> ELSE <<"incr", 0>>

\* main.rs:91-119   position when the first loop over system_sensors is at j
SystemDiscoveryAt(ss, published, j) ==
    LET k == NextUndiscovered(ss, published, j)
    IN  IF k = 0 THEN SystemStateAt(ss, 1) ELSE <<"s_disc", k>>

\* an empty temperature snapshot ends the cycle at once
TempAtEmptyEndsCycle(ts, tpublished, ss, spublished, j) ==
    IF Len(ts) = 0 THEN <<"incr", 0>>
    ELSE IF j > Len(ts) THEN SystemDiscoveryAt(ss, spublished, 1)
    ELSE IF NeedsDiscovery(tpublished, ts[j]) THEN <<"t_disc", j>>
    ELSE <<"t_state", j>>

\* main.rs:63-67   position when the loop over temp_payloads is at j
TempAt(ts, tpublished, ss, spublished, j) ==
    IF j > Len(ts) THEN SystemDiscoveryAt(ss, spublished, 1)
    ELSE IF NeedsDiscovery(tpublished, ts[j]) THEN <<"t_disc", j>>
    ELSE <<"t_state", j>>

\* the refresh leaves the temperature sensors out
RefreshTempAtSkipsTemperatures(ts, ss, j) ==
    IF j <= Len(ss) THEN <<"r_sys", j>> ELSE <<"sleep", 0>>

\* main.rs:133 and main.rs:146   the two refresh loops
RefreshSystemAt(ss, j) ==
    IF j <= Len(ss) THEN <<"r_sys", j>> ELSE <<"sleep", 0>>

RefreshTempAt(ts, ss, j) ==
    IF j <= Len(ts) THEN <<"r_temp", j>> ELSE RefreshSystemAt(ss, 1)

\* main.rs:130-159   after the increment: refresh, or the select
AfterIncrement(c, ts, ss) ==
    IF IsRefreshCycle(c) THEN RefreshTempAt(ts, ss, 1) ELSE <<"sleep", 0>>

\* main.rs:167 and main.rs:174   the two loops of the offline pass
OfflineSystemAt(ss, j) ==
    IF j <= Len(ss) THEN <<"off_sys", j>> ELSE <<AfterOfflinePass, 0>>

\* the offline pass leaves the temperature sensors out
OfflineTempAtNone(ts, j) == <<"off_collect_sys", 0>>

OfflineTempAt(ts, j) ==
    IF j <= Len(ts) THEN <<"off_temp", j>> ELSE <<"off_collect_sys", 0>>

Goto(pos) == pc' = pos[1] /\ i' = pos[2]

Result(ok) == IF ok THEN "ok" ELSE "err"

\* a step of publish_task that calls publish: the call is logged with its result
Publishes(ok, k, g, e, n) ==
    /\ log' = Append(log, Event(k, g, e, n))
    /\ last_result' = Result(ok)

\* a step of publish_task that makes no publish call
NoPublish == log' = log /\ last_result' = "none"

Running == ~exited

\* ------------------------------------------------- steps of publish_task
\* main.rs:41   the initial 5 s wait
Startup ==
    /\ Running /\ pc = "start"
    /\ pc' = "collect"
    /\ NoPublish
    /\ UNCHANGED <<i, snapshotVars, setVars, cycle_counter, envVars, pureVars>>

\* main.rs:49-67   snapshot, build the payloads, enter the first loop
Collect ==
    /\ Running /\ pc = "collect"
    /\ \E ts \in collect_all_temperatures, ss \in collect_system_stats :
          /\ temp_sensors' = ts
          /\ system_sensors' = ss
          /\ Goto(TempAt(ts, published_temp_sensors,
                         ss, published_system_sensors, 1))
    /\ log' = <<>>
    /\ last_result' = "none"
    /\ UNCHANGED <<setVars, cycle_counter, envVars, pureVars>>

\* main.rs:69-72   publish(discovery) of temperature entry i
TempDiscovery ==
    /\ Running /\ pc = "t_disc"
    /\ \E ok \in BOOLEAN :
          /\ published_temp_sensors' =
                 InsertOnSuccess(published_temp_sensors, temp_sensors[i], ok)
          /\ pc' = AfterTempDiscovery(ok)
          /\ Publishes(ok, IF ok THEN "discovery_ok" ELSE "discovery_err",
                       "temp", i, temp_sensors[i])
          /\ discoveredOk' = IF ok THEN discoveredOk \cup {temp_sensors[i]}
                             ELSE discoveredOk
    /\ UNCHANGED <<i, snapshotVars, published_system_sensors, cycle_counter,
                   envVars, pureVars>>

\* main.rs:74-78   publish(availability = online) right after discovery
TempAvailability ==
    /\ Running /\ pc = "t_avail"
    /\ \E ok \in BOOLEAN :
          /\ Goto(OnPublishResult(ok, <<"t_delay", i>>))
          /\ Publishes(ok, "availability", "temp", i, temp_sensors[i])
    /\ UNCHANGED <<snapshotVars, setVars, cycle_counter, envVars, pureVars>>

\* main.rs:80-81   sleep(discovery_delay_ms)
TempDelay ==
    /\ Running /\ pc = "t_delay"
    /\ pc' = "t_state"
    /\ NoPublish
    /\ UNCHANGED <<i, snapshotVars, setVars, cycle_counter, envVars, pureVars>>

\* main.rs:84-87   publish(state) of temperature entry i, then the next entry
TempState ==
    /\ Running /\ pc = "t_state"
    /\ \E ok \in BOOLEAN :
          /\ Goto(OnPublishResult(ok,
                     TempAt(temp_sensors, published_temp_sensors,
                            system_sensors, published_system_sensors, i + 1)))
          /\ Publishes(ok, "state", "temp", i, temp_sensors[i])
    /\ UNCHANGED <<snapshotVars, setVars, cycle_counter, envVars, pureVars>>

\* main.rs:93-103   publish_system_discovery_config of system entry i
SystemDiscovery ==
    /\ Running /\ pc = "s_disc"
    /\ \E ok \in BOOLEAN :
          /\ published_system_sensors' =
                 InsertOnSuccess(published_system_sensors, system_sensors[i], ok)
          /\ pc' = AfterSystemDiscovery(ok)
          /\ Publishes(ok, IF ok THEN "discovery_ok" ELSE "discovery_err",
                       "sys", i, system_sensors[i])
          /\ discoveredOk' = IF ok THEN discoveredOk \cup {system_sensors[i]}
                             ELSE discoveredOk
    /\ UNCHANGED <<i, snapshotVars, published_temp_sensors, cycle_counter,
                   envVars, pureVars>>

\* main.rs:105   sleep(50 ms) between discovery and availability
SystemPause ==
    /\ Running /\ pc = "s_pause"
    /\ pc' = "s_avail"
    /\ NoPublish
    /\ UNCHANGED <<i, snapshotVars, setVars, cycle_counter, envVars, pureVars>>

\* main.rs:106-115   publish_system_sensor_availability(true)
SystemAvailability ==
    /\ Running /\ pc = "s_avail"
    /\ \E ok \in BOOLEAN :
          /\ Goto(OnPublishResult(ok, <<"s_delay", i>>))
          /\ Publishes(ok, "availability", "sys", i, system_sensors[i])
    /\ UNCHANGED <<snapshotVars, setVars, cycle_counter, envVars, pureVars>>

\* main.rs:117-119   sleep(discovery_delay_ms), then the next system entry
SystemDelay ==
    /\ Running /\ pc = "s_delay"
    /\ Goto(SystemDiscoveryAt(system_sensors, published_system_sensors, i + 1))
    /\ NoPublish
    /\ UNCHANGED <<snapshotVars, setVars, cycle_counter, envVars, pureVars>>

\* main.rs:121-126   publish(system_state) of system entry i
SystemState ==
    /\ Running /\ pc = "s_state"
    /\ \E ok \in BOOLEAN :
          /\ Goto(OnPublishResult(ok, SystemStateAt(system_sensors, i + 1)))
          /\ Publishes(ok, "state", "sys", i, system_sensors[i])
    /\ UNCHANGED <<snapshotVars, setVars, cycle_counter, envVars, pureVars>>

\* main.rs:129-133   cycle_counter += 1 and the refresh decision
IncrementCycle ==
    /\ Running /\ pc = "incr"
    /\ cycle_counter' = Increment(cycle_counter)
    /\ Goto(AfterIncrement(cycle_counter', temp_sensors, system_sensors))
    /\ NoPublish
    /\ UNCHANGED <<snapshotVars, setVars, envVars, pureVars>>

\* main.rs:134-143   publish_sensor_availability(true) of the refresh
RefreshTemp ==
    /\ Running /\ pc = "r_temp"
    /\ \E ok \in BOOLEAN :
          /\ Goto(OnPublishResult(ok, <<"r_temp_delay", i>>))
          /\ Publishes(ok, "refresh", "temp", i, temp_sensors[i])
    /\ UNCHANGED <<snapshotVars, setVars, cycle_counter, envVars, pureVars>>

\* main.rs:144   sleep(20 ms)
RefreshTempDelay ==
    /\ Running /\ pc = "r_temp_delay"
    /\ Goto(RefreshTempAt(temp_sensors, system_sensors, i + 1))
    /\ NoPublish
    /\ UNCHANGED <<snapshotVars, setVars, cycle_counter, envVars, pureVars>>

\* main.rs:147-156   publish_system_sensor_availability(true) of the refresh
RefreshSystem ==
    /\ Running /\ pc = "r_sys"
    /\ \E ok \in BOOLEAN :
          /\ Goto(OnPublishResult(ok, <<"r_sys_delay", i>>))
          /\ Publishes(ok, "refresh", "sys", i, system_sensors[i])
    /\ UNCHANGED <<snapshotVars, setVars, cycle_counter, envVars, pureVars>>

\* main.rs:157   sleep(20 ms)
RefreshSystemDelay ==
    /\ Running /\ pc = "r_sys_delay"
    /\ Goto(RefreshSystemAt(system_sensors, i + 1))
    /\ NoPublish
    /\ UNCHANGED <<snapshotVars, setVars, cycle_counter, envVars, pureVars>>

\* main.rs:162-163   the select: the interval elapses, the next iteration starts
\* and the ctrl_c() future of this select is dropped
SleepElapsed ==
    /\ Running /\ pc = "sleep"
    /\ cycle_counter < MaxCycles
    /\ pc' = "collect"
    /\ orchSignalled' = FALSE
    /\ NoPublish
    /\ UNCHANGED <<i, snapshotVars, setVars, cycle_counter, mainSignalled,
                   supervisor, exited, signalMidCycle, pureVars>>

\* main.rs:164-167   the select: ctrl_c() wins; fresh temperature snapshot
ShutdownBranch ==
    /\ Running /\ pc = "sleep"
    /\ orchSignalled
    /\ \E ts \in collect_all_temperatures :
          /\ temp_sensors' = ts
          /\ Goto(OfflineTempAt(ts, 1))
    /\ log' = <<>>
    /\ last_result' = "none"
    /\ UNCHANGED <<system_sensors, setVars, cycle_counter, envVars, pureVars>>

\* main.rs:168-170   publish_sensor_availability(false)
OfflineTemp ==
    /\ Running /\ pc = "off_temp"
    /\ \E ok \in BOOLEAN :
          /\ Goto(OnPublishResult(ok, <<"off_temp_delay", i>>))
          /\ Publishes(ok, "offline", "temp", i, temp_sensors[i])
    /\ UNCHANGED <<snapshotVars, setVars, cycle_counter, envVars, pureVars>>

\* main.rs:171   sleep(50 ms)
OfflineTempDelay ==
    /\ Running /\ pc = "off_temp_delay"
    /\ Goto(OfflineTempAt(temp_sensors, i + 1))
    /\ NoPublish
    /\ UNCHANGED <<snapshotVars, setVars, cycle_counter, envVars, pureVars>>

\* main.rs:173-174   fresh system snapshot after the temperature loop
OfflineCollectSystem ==
    /\ Running /\ pc = "off_collect_sys"
    /\ \E ss \in collect_system_stats :
          /\ system_sensors' = ss
          /\ Goto(OfflineSystemAt(ss, 1))
    /\ NoPublish
    /\ UNCHANGED <<temp_sensors, setVars, cycle_counter, envVars, pureVars>>

\* main.rs:175-177   publish_system_sensor_availability(false)
OfflineSystem ==
    /\ Running /\ pc = "off_sys"
    /\ \E ok \in BOOLEAN :
          /\ Goto(OnPublishResult(ok, <<"off_sys_delay", i>>))
          /\ Publishes(ok, "offline", "sys", i, system_sensors[i])
    /\ UNCHANGED <<snapshotVars, setVars, cycle_counter, envVars, pureVars>>

\* main.rs:178-180   sleep(50 ms); after the last entry, break
OfflineSystemDelay ==
    /\ Running /\ pc = "off_sys_delay"
    /\ Goto(OfflineSystemAt(system_sensors, i + 1))
    /\ NoPublish
    /\ UNCHANGED <<snapshotVars, setVars, cycle_counter, envVars, pureVars>>

\* ----------------------------------------------------------- environment
\* positions of publish_task inside a cycle, outside the select of main.rs:162
MidCycle ==
    {"collect", "t_disc", "t_avail", "t_delay", "t_state", "s_disc", "s_pause",
     "s_avail", "s_delay", "s_state", "incr", "r_temp", "r_temp_delay",
     "r_sys", "r_sys_delay"}

\* SIGINT is delivered: every ctrl_c() future that exists is made ready.  The
\* one of main.rs:210 exists from the first poll of the top-level select; the
\* one of main.rs:164 exists only while publish_task is in its select.
Signal ==
    /\ Running
    /\ mainSignalled' = TRUE
    /\ orchSignalled' = (orchSignalled \/ pc = "sleep")
    /\ signalMidCycle' = (signalMidCycle \/ pc \in MidCycle)
    /\ <<mainSignalled', orchSignalled', signalMidCycle'>>
           # <<mainSignalled, orchSignalled, signalMidCycle>>
    /\ UNCHANGED <<orchVars, supervisor, exited, pureVars>>

\* --------------------------------------------- the connection supervisor
\* main.rs:190-199   poll() returns Ok(event): logged or ignored, poll again
PollEvent ==
    /\ Running /\ supervisor = "polling"
    /\ supervisor' = "polling"
    /\ UNCHANGED <<orchVars, orchSignalled, mainSignalled, exited,
                   signalMidCycle, pureVars>>

\* the Err arm leaves the poll loop and with it main
PollErrorFatal ==
    /\ Running /\ supervisor = "polling"
    /\ supervisor' = "dropped"
    /\ exited' = TRUE
    /\ UNCHANGED <<orchVars, orchSignalled, mainSignalled, signalMidCycle,
                   pureVars>>

\* the Err arm forgets what was discovered, to announce it again after the
\* reconnect
PollErrorForgetsDiscovery ==
    /\ Running /\ supervisor = "polling"
    /\ supervisor' = "backoff"
    /\ published_temp_sensors' = {}
    /\ published_system_sensors' = {}
    /\ UNCHANGED <<pc, i, snapshotVars, cycle_counter, log, discoveredOk,
                   last_result, orchSignalled, mainSignalled, exited,
                   signalMidCycle, pureVars>>

\* main.rs:200-203   poll() returns Err: log, then sleep 5 s
PollError ==
    /\ Running /\ supervisor = "polling"
    /\ supervisor' = "backoff"
    /\ UNCHANGED <<orchVars, orchSignalled, mainSignalled, exited,
                   signalMidCycle, pureVars>>

\* main.rs:203-206   the 5 s are over, the loop polls again
BackoffElapsed ==
    /\ Running /\ supervisor = "backoff"
    /\ supervisor' = "polling"
    /\ UNCHANGED <<orchVars, orchSignalled, mainSignalled, exited,
                   signalMidCycle, pureVars>>

\* ------------------------------------------------- the top-level select
\* main.rs:209   publish_task has finished: main returns and the select drops
\* the future of the poll loop
MainTaskDone ==
    /\ Running /\ pc = "done"
    /\ exited' = TRUE
    /\ supervisor' = "dropped"
    /\ UNCHANGED <<orchVars, orchSignalled, mainSignalled, signalMidCycle,
                   pureVars>>

\* main returns on Ctrl-C only once publish_task has finished
MainCtrlCAfterTask ==
    /\ Running /\ mainSignalled /\ pc = "done"
    /\ exited' = TRUE
    /\ supervisor' = "dropped"
    /\ UNCHANGED <<orchVars, orchSignalled, mainSignalled, signalMidCycle,
                   pureVars>>

\* main.rs:210-212   ctrl_c() is ready: main returns, the runtime is dropped
\* and publish_task is cancelled at the .await it is suspended in
MainCtrlC ==
    /\ Running /\ mainSignalled
    /\ exited' = TRUE
    /\ supervisor' = "dropped"
    /\ UNCHANGED <<orchVars, orchSignalled, mainSignalled, signalMidCycle,
                   pureVars>>

PublishTask ==
    \/ Startup \/ Collect
    \/ TempDiscovery \/ TempAvailability \/ TempDelay \/ TempState
    \/ SystemDiscovery \/ SystemPause \/ SystemAvailability \/ SystemDelay
    \/ SystemState \/ IncrementCycle
    \/ RefreshTemp \/ RefreshTempDelay \/ RefreshSystem \/ RefreshSystemDelay
    \/ SleepElapsed \/ ShutdownBranch
    \/ OfflineTemp \/ OfflineTempDelay \/ OfflineCollectSystem
    \/ OfflineSystem \/ OfflineSystemDelay

Supervisor == PollEvent \/ PollError \/ BackoffElapsed

Next ==
    \/ PublishTask
    \/ Supervisor
    \/ Signal
    \/ MainTaskDone
    \/ MainCtrlC

Spec == Init /\ [][Next]_vars

\* ------------------------------------------- the daemon left to run
\* the steps of the loop of main.rs:48-163 while no SIGINT arrives
CycleSteps ==
    \/ Startup \/ Collect
    \/ TempDiscovery \/ TempAvailability \/ TempDelay \/ TempState
    \/ SystemDiscovery \/ SystemPause \/ SystemAvailability \/ SystemDelay
    \/ SystemState \/ IncrementCycle
    \/ RefreshTemp \/ RefreshTempDelay \/ RefreshSystem \/ RefreshSystemDelay
    \/ SleepElapsed

LiveNext == CycleSteps \/ Supervisor

\* publish_task is a spawned tokio task (main.rs:39): every .await it is
\* suspended in is a sleep that elapses or a publish that hands the message
\* to the event loop, so a step that stays possible is taken
LiveSpec == Init /\ [][LiveNext]_vars /\ WF_vars(CycleSteps)

\* ------------------------------------------- the increment of the counter
\* main.rs:46, 129   values of the counter near the ends of each half
HalfEdges == (0..EdgeWidth) \cup ((HalfBase - 1 - EdgeWidth)..(HalfBase - 1))

CounterInputs == {<<h, l>> : h \in HalfEdges, l \in HalfEdges}

\* an iteration of the loop is about to execute main.rs:129
CounterInit ==
    /\ ProgramInit
    /\ input \in CounterInputs
    /\ output = <<>>

\* main.rs:129   cycle_counter += 1, as either build profile executes it
CounterIncrement ==
    /\ output = <<>>
    /\ \E overflow_checks \in BOOLEAN :
          output' = <<AddAssignOne(input, overflow_checks)>>
    /\ UNCHANGED <<input, orchVars, envVars>>

CounterNext == CounterIncrement

CounterSpec == CounterInit /\ [][CounterNext]_vars

\* ------------------------------------------------ the temperature scan
\* Text is held as a sequence of one-character strings, so that the string
\* operations of the code are computed and not assumed.
RECURSIVE replace(_, _, _)
\* str::replace: every non-overlapping match of from, left to right
replace(s, from, to) ==
    IF Len(s) < Len(from) THEN s
    ELSE IF SubSeq(s, 1, Len(from)) = from
         THEN to \o replace(SubSeq(s, Len(from) + 1, Len(s)), from, to)
         ELSE <<s[1]>> \o replace(Tail(s), from, to)

starts_with(s, prefix) ==
    Len(prefix) <= Len(s) /\ SubSeq(s, 1, Len(prefix)) = prefix

ends_with(s, suffix) ==
    /\ Len(suffix) <= Len(s)
    /\ SubSeq(s, Len(s) - Len(suffix) + 1, Len(s)) = suffix

\* temperature_sensor.rs:5-6
TEMP_FILE_PREFIX == <<"t", "e", "m", "p">>

TEMP_FILE_SUFFIX == <<"_", "i", "n", "p", "u", "t">>

\* file names of a hwmon directory
temp_input(n) == TEMP_FILE_PREFIX \o <<n>> \o TEMP_FILE_SUFFIX

temp_label(n) == TEMP_FILE_PREFIX \o <<n, "_", "l", "a", "b", "e", "l">>

\* what read_to_string and parse::<f32> make of a file: a number of
\* millidegrees, or nothing (unreadable, or not a number)
Number(m) == [parsed |-> TRUE, millidegrees |-> m]

NotANumber == [parsed |-> FALSE, millidegrees |-> 0]

\* the files a hwmon directory may hold: a sensor file that parses or does
\* not, a second sensor file, and a label file
DirEntries ==
    {[filename |-> temp_input("1"), content |-> Number(45000)],
     [filename |-> temp_input("1"), content |-> NotANumber],
     [filename |-> temp_input("2"), content |-> Number(38500)],
     [filename |-> temp_label("1"), content |-> NotANumber]}

\* the orders in which read_dir may list a directory: no file name twice
Listings ==
    {l \in UNION {[1..n -> DirEntries] : n \in 0..MaxFiles} :
        \A a, b \in 1..Len(l) : a # b => l[a].filename # l[b].filename}

\* content of the name file of a hwmon directory, <<>> when it cannot be read
NameFiles == {<<>>, <<<<"n", "v", "m", "e">>>>}

HwmonDirs == [name_file : NameFiles, entries : Listings]

\* /sys/class/hwmon: unreadable, or its directories hwmon0, hwmon1, ...
FileSystems ==
    {[readable |-> FALSE, dirs |-> <<>>]}
        \cup {[readable |-> TRUE, dirs |-> d] :
                 d \in UNION {[1..n -> HwmonDirs] : n \in 0..MaxDevices}}

Digits == <<"0", "1", "2", "3", "4", "5", "6", "7", "8", "9">>

\* temperature_sensor.rs:47-48   file name of the k-th directory
hwmon_name(k) == <<"h", "w", "m", "o", "n", Digits[k]>>

\* temperature_sensor.rs:61-66   (trim leaves the names used here as they are)
read_device_name(dir) == dir.name_file

\* temperature_sensor.rs:40-59
discover_hwmon_devices(fs) ==
    [k \in 1..Len(fs.dirs) |->
        [path |-> hwmon_name(k),
         name |-> IF read_device_name(fs.dirs[k]) = <<>> THEN hwmon_name(k)
                  ELSE read_device_name(fs.dirs[k])[1],
         entries |-> fs.dirs[k].entries]]

\* temperature_sensor.rs:115-117
is_temperature_file(filename) ==
    /\ starts_with(filename, TEMP_FILE_PREFIX)
    /\ ends_with(filename, TEMP_FILE_SUFFIX)

\* temperature_sensor.rs:119-123   Some(millidegrees / 1000.0) or None
read_temperature_value(entry) ==
    IF entry.content.parsed
    THEN <<[num |-> entry.content.millidegrees, den |-> 1000]>>
    ELSE <<>>

\* temperature_sensor.rs:125-131
extract_temperature_number(filename) ==
    replace(replace(filename, TEMP_FILE_PREFIX, <<>>), TEMP_FILE_SUFFIX, <<>>)

\* temperature_sensor.rs:97-113   <<sensor>> for Some(sensor), <<>> for None
process_temperature_file(entry, device) ==
    IF ~is_temperature_file(entry.filename) THEN <<>>
    ELSE IF read_temperature_value(entry) = <<>> THEN <<>>
    ELSE <<[name |-> device.name \o <<"_">>
                        \o extract_temperature_number(entry.filename),
            temperature |-> read_temperature_value(entry)[1],
            file_path |-> <<device.path, entry.filename>>]>>

RECURSIVE scan_entries_stops_on_failure(_, _)
\* the scan of a device gives up at the first value file it cannot read
scan_entries_stops_on_failure(device, k) ==
    IF k > Len(device.entries) THEN <<>>
    ELSE IF /\ is_temperature_file(device.entries[k].filename)
            /\ read_temperature_value(device.entries[k]) = <<>>
    THEN <<>>
    ELSE process_temperature_file(device.entries[k], device)
             \o scan_entries_stops_on_failure(device, k + 1)

RECURSIVE scan_entries(_, _)
\* temperature_sensor.rs:73-83   the loop over the entries from the k-th on
scan_entries(device, k) ==
    IF k > Len(device.entries) THEN <<>>
    ELSE process_temperature_file(device.entries[k], device)
             \o scan_entries(device, k + 1)

\* temperature_sensor.rs:68-95
scan_device_temperatures(device) == scan_entries(device, 1)

RECURSIVE scan_devices(_, _)
\* temperature_sensor.rs:27-30   the loop over the devices from the k-th on
scan_devices(devices, k) ==
    IF k > Len(devices) THEN <<>>
    ELSE scan_device_temperatures(devices[k]) \o scan_devices(devices, k + 1)

\* temperature_sensor.rs:22-38   collect_all_temperatures() on a given /sys
collect_all_temperatures_from(fs) ==
    IF fs.readable THEN scan_devices(discover_hwmon_devices(fs), 1) ELSE <<>>

\* publish_task is about to take a snapshot (main.rs:49 or main.rs:166)
CollectInit ==
    /\ ProgramInit
    /\ input \in FileSystems
    /\ output = <<>>

\* main.rs:49   collect_all_temperatures()
CollectTemperatures ==
    /\ output = <<>>
    /\ output' = <<collect_all_temperatures_from(input)>>
    /\ UNCHANGED <<input, orchVars, envVars>>

CollectNext == CollectTemperatures

CollectSpec == CollectInit /\ [][CollectNext]_vars

\* ------------------------------------------------------------ the topics
\* homeassistant.rs:150   the literal head of the format string
TOPIC_HEAD ==
    <<"h", "o", "m", "e", "a", "s", "s", "i", "s", "t", "a", "n", "t", "/",
    "s", "e", "n", "s", "o", "r", "/", "o", "r", "b", "i", "q", "_">>

\* homeassistant.rs:110, 159, 178   the three sub-topics
SUB_CONFIG ==
    <<"c", "o", "n", "f", "i", "g">>

SUB_STATE ==
    <<"s", "t", "a", "t", "e">>

SUB_AVAILABILITY ==
    <<"a", "v", "a", "i", "l", "a", "b", "i", "l", "i", "t", "y">>

\* homeassistant.rs:18-22   struct Topic
Topic(sensor_name, device_name, sub_topic) ==
    [sensor_name |-> sensor_name, device_name |-> device_name,
     sub_topic |-> sub_topic]

\* the sensor name left out of the format string
topic_without_sensor(data) ==
    TOPIC_HEAD \o data.device_name \o <<"/">> \o data.sub_topic

\* homeassistant.rs:148-153   format!("homeassistant/sensor/orbiq_{}/{}/{}")
topic(data) ==
    TOPIC_HEAD \o data.device_name \o <<"/">> \o data.sensor_name
        \o <<"/">> \o data.sub_topic

\* str::contains
contains(s, pat) ==
    \E k \in 1..(Len(s) - Len(pat) + 1) : SubSeq(s, k, k + Len(pat) - 1) = pat

\* name.split('_').last(): what follows the last separator
split_last(s, sep) ==
    LET at == {k \in 1..Len(s) : s[k] = sep}
    IN  IF at = {} THEN s
        ELSE SubSeq(s, (CHOOSE k \in at : \A m \in at : m <= k) + 1, Len(s))

TEMPERATURE ==
    <<"t", "e", "m", "p", "e", "r", "a", "t", "u", "r", "e">>

TEMPERATURE_WORD ==
    <<" ", "T", "e", "m", "p", "e", "r", "a", "t", "u", "r", "e">>

\* every sensor gets the name of the default arm
generate_friendly_name_default(sensor_name) ==
    replace(sensor_name, <<"_">>, <<" ">>) \o TEMPERATURE_WORD

\* homeassistant.rs:44-64   the first arm whose guard holds
generate_friendly_name(sensor_name) ==
    IF contains(sensor_name, <<"k", "1", "0", "t", "e", "m", "p">>)
    THEN <<"C", "P", "U">> \o TEMPERATURE_WORD
    ELSE IF contains(sensor_name, <<"n", "o", "u", "v", "e", "a", "u">>)
    THEN <<"G", "P", "U">> \o TEMPERATURE_WORD
    ELSE IF contains(sensor_name, <<"n", "v", "m", "e">>)
    THEN <<"N", "V", "M", "e", " ">> \o split_last(sensor_name, "_") \o
        TEMPERATURE_WORD
    ELSE IF contains(sensor_name, <<"c", "o", "r", "e", "t", "e", "m", "p">>)
    THEN <<"C", "o", "r", "e", " ">> \o split_last(sensor_name, "_") \o
        TEMPERATURE_WORD
    ELSE IF contains(sensor_name, <<"a", "c", "p", "i">>)
    THEN <<"S", "y", "s", "t", "e", "m">> \o TEMPERATURE_WORD
    ELSE IF contains(sensor_name, <<"a", "m", "d", "g", "p", "u">>)
    THEN <<"A", "M", "D", " ", "G", "P", "U">> \o TEMPERATURE_WORD
    ELSE IF contains(sensor_name, <<"r", "a", "d", "e", "o", "n">>)
    THEN <<"R", "a", "d", "e", "o", "n", " ", "G", "P", "U">> \o
        TEMPERATURE_WORD
    ELSE IF contains(sensor_name, <<"a", "s", "u", "s">>)
    THEN <<"A", "S", "U", "S", " ", "S", "e", "n", "s", "o", "r">> \o
        TEMPERATURE_WORD
    ELSE IF contains(sensor_name, <<"i", "w", "l", "w", "i", "f", "i">>)
    THEN <<"W", "i", "F", "i", " ", "M", "o", "d", "u", "l", "e">> \o
        TEMPERATURE_WORD
    ELSE IF contains(sensor_name, <<"t", "h", "e", "r", "m", "a", "l">>)
    THEN <<"T", "h", "e", "r", "m", "a", "l", " ", "Z", "o", "n", "e">> \o
        TEMPERATURE_WORD
    ELSE replace(sensor_name, <<"_">>, <<" ">>) \o TEMPERATURE_WORD

ORBIQ == <<"o", "r", "b", "i", "q", "_">>

ONLINE == <<"o", "n", "l", "i", "n", "e">>

OFFLINE == <<"o", "f", "f", "l", "i", "n", "e">>

MEASUREMENT == <<"m", "e", "a", "s", "u", "r", "e", "m", "e", "n", "t">>

\* homeassistant.rs:24-40   DeviceInfo::from_config (the two version fields
\* come from the configuration file and are left out)
from_config(device_name) ==
    [identifiers |-> <<ORBIQ \o device_name>>,
     name |-> device_name,
     model |-> <<"O", "r", "b", "I", "Q", " ", "S", "y", "s", "t", "e", "m",
         " ", "M", "o", "n", "i", "t", "o", "r">>,
     manufacturer |-> <<"O", "r", "b", "I", "Q">>]

\* homeassistant.rs:130 and homeassistant.rs:252   the two value templates
TEMPERATURE_TEMPLATE ==
    <<"{", "{", " ", "v", "a", "l", "u", "e", "_", "j", "s", "o", "n", ".",
        "t", "e", "m", "p", "e", "r", "a", "t", "u", "r", "e", " ", "}",
        "}">>

VALUE_TEMPLATE ==
    <<"{", "{", " ", "v", "a", "l", "u", "e", "_", "j", "s", "o", "n", ".",
        "v", "a", "l", "u", "e", " ", "}", "}">>

\* a JSON object is the sequence of its members; a number is the exact
\* quotient num/den of what the f32 or f64 holds
Member(key, value) == [key |-> key, value |-> value]

\* homeassistant.rs:99-146   discovery_config: the three format! calls, the
\* config object, and the message that goes to config_topic
discovery_config(sensor_name, device_name) ==
    LET unique_id == ORBIQ \o device_name \o <<"_">> \o sensor_name
        object_id == ORBIQ \o device_name \o <<"_">> \o sensor_name
        config_topic ==
            TOPIC_HEAD \o device_name \o <<"/">> \o sensor_name
                \o <<"/">> \o SUB_CONFIG
        state_topic ==
            TOPIC_HEAD \o device_name \o <<"/">> \o sensor_name
                \o <<"/">> \o SUB_STATE
        availability_topic ==
            TOPIC_HEAD \o device_name \o <<"/">> \o sensor_name
                \o <<"/">> \o SUB_AVAILABILITY
        config ==
            [name |-> generate_friendly_name(sensor_name),
             unique_id |-> unique_id,
             object_id |-> object_id,
             state_topic |-> state_topic,
             unit_of_measurement |-> <<"°", "C">>,
             device_class |-> TEMPERATURE,
             state_class |-> MEASUREMENT,
             value_template |-> TEMPERATURE_TEMPLATE,
             availability |-> [topic |-> availability_topic,
                               payload_available |-> ONLINE,
                               payload_not_available |-> OFFLINE],
             device |-> from_config(device_name)]
    IN  [topic |-> config_topic, payload |-> config, retain |-> TRUE]

\* the state message retained by the broker
temperature_state_retained(sensor, device_name) ==
    [topic |-> topic(Topic(sensor.name, device_name, SUB_STATE)),
     payload |-> <<Member(<<"t", "e", "m", "p", "e", "r", "a", "t", "u", "r",
         "e">>, sensor.temperature)>>,
     retain |-> TRUE]

\* homeassistant.rs:155-169
temperature_state(sensor, device_name) ==
    [topic |-> topic(Topic(sensor.name, device_name, SUB_STATE)),
     payload |-> <<Member(<<"t", "e", "m", "p", "e", "r", "a", "t", "u", "r",
         "e">>, sensor.temperature)>>,
     retain |-> FALSE]

\* homeassistant.rs:170-190
sensor_availability(sensor_name, device_name, available) ==
    [topic |-> topic(Topic(sensor_name, device_name, SUB_AVAILABILITY)),
     payload |-> IF available THEN ONLINE ELSE OFFLINE,
     retain |-> TRUE]

\* homeassistant.rs:192-207   the message publish_sensor_availability sends
publish_sensor_availability(sensor_name, device_name, available) ==
    [topic |-> TOPIC_HEAD \o device_name \o <<"/">> \o sensor_name
                   \o <<"/">> \o SUB_AVAILABILITY,
     payload |-> IF available THEN ONLINE ELSE OFFLINE,
     retain |-> TRUE]

\* the topics the three payloads of a sensor go to (main.rs:55-61); the
\* reading of the sensor has no part in them
topics_of(sensor_name, device_name) ==
    LET sensor == [name |-> sensor_name, temperature |-> [num |-> 0, den |-> 1]]
    IN  [config |-> discovery_config(sensor_name, device_name).topic,
         state |-> temperature_state(sensor, device_name).topic,
         availability |->
             sensor_availability(sensor_name, device_name, TRUE).topic]

\* ------------------------------------------------- the system sensors
\* a quotient num/den
Quotient(num, den) == [num |-> num, den |-> den]

\* system_sensor.rs:69, 76, 113, 120   1024.0 * 1024.0 * 1024.0 bytes.  Byte
\* counts are u64 and beyond the integers of the model checker; they are held
\* in MiB (2^20 bytes), of which a GiB has 1024.
MiBPerGiB == 1024

\* system_sensor.rs:54-58 and 98-102   percentage, 0.0 for an empty total
percent_of(used, total) ==
    IF total > 0 THEN Quotient(used * 100, total) ELSE Quotient(0, 1)

\* system_sensor.rs:89   str::replace with a set of characters as pattern
replace_chars(s, pattern, to) ==
    [k \in 1..Len(s) |-> IF s[k] \in pattern THEN to ELSE s[k]]

RECURSIVE trim_start_matches(_, _)
trim_start_matches(s, c) ==
    IF s # <<>> /\ Head(s) = c THEN trim_start_matches(Tail(s), c) ELSE s

RECURSIVE trim_end_matches(_, _)
trim_end_matches(s, c) ==
    IF s # <<>> /\ s[Len(s)] = c
    THEN trim_end_matches(SubSeq(s, 1, Len(s) - 1), c) ELSE s

\* system_sensor.rs:90   str::trim_matches
trim_matches(s, c) == trim_end_matches(trim_start_matches(s, c), c)

\* system_sensor.rs:85-92
name_suffix(mount_point) ==
    IF mount_point = <<"/">> THEN <<"r", "o", "o", "t">>
    ELSE trim_matches(replace_chars(mount_point, {"/", " "}, "_"), "_")

SystemSensor(name, value, unit, sensor_type) ==
    [name |-> name, value |-> value, unit |-> unit, sensor_type |-> sensor_type]

PERCENT == <<"%">>

GB == <<"G", "B">>

\* system_sensor.rs:83-124   the three sensors of one disk
disk_sensors(disk) ==
    LET total_space == disk.total_space
        used_space == disk.total_space - disk.available_space
        suffix == name_suffix(disk.mount_point)
    IN  <<SystemSensor(<<"d", "i", "s", "k", "_", "u", "s", "a", "g", "e",
        "_">> \o suffix,
                       percent_of(used_space, total_space), PERCENT,
                       "DiskUsage"),
          SystemSensor(<<"d", "i", "s", "k", "_", "u", "s", "e", "d", "_">>
              \o suffix,
                       Quotient(used_space, MiBPerGiB), GB, "DiskUsed"),
          SystemSensor(<<"d", "i", "s", "k", "_", "t", "o", "t", "a", "l",
              "_">> \o suffix,
                       Quotient(total_space, MiBPerGiB), GB, "DiskTotal")>>

RECURSIVE all_disk_sensors(_, _)
\* system_sensor.rs:83   the loop over the disks from the k-th on
all_disk_sensors(disks, k) ==
    IF k > Len(disks) THEN <<>>
    ELSE disk_sensors(disks[k]) \o all_disk_sensors(disks, k + 1)

\* system_sensor.rs:36-127   collect_system_stats() on given readings:
\* global_cpu_usage (an f32, widened to f64 as it is), the memory counters
\* and the disks
collect_system_stats_from(sys) ==
    <<SystemSensor(<<"c", "p", "u", "_", "u", "s", "a", "g", "e">>,
        sys.global_cpu_usage, PERCENT, "CpuUsage"),
      SystemSensor(<<"m", "e", "m", "o", "r", "y", "_", "u", "s", "a", "g",
          "e">>,
                   percent_of(sys.used_memory, sys.total_memory), PERCENT,
                   "MemoryUsage"),
      SystemSensor(<<"m", "e", "m", "o", "r", "y", "_", "u", "s", "e", "d">>,
                   Quotient(sys.used_memory, MiBPerGiB), GB, "MemoryUsed"),
      SystemSensor(<<"m", "e", "m", "o", "r", "y", "_", "t", "o", "t", "a",
          "l">>,
                   Quotient(sys.total_memory, MiBPerGiB), GB, "MemoryTotal")>>
        \o all_disk_sensors(sys.disks, 1)

\* homeassistant.rs:233-241   None is <<>>, Some(class) is <<class>>
system_device_class(sensor_type) ==
    IF sensor_type \in {"CpuUsage", "MemoryUsage", "DiskUsage"} THEN <<>>
    ELSE <<<<"d", "a", "t", "a", "_", "s", "i", "z", "e">>>>

\* homeassistant.rs:209-269   the message publish_system_discovery_config
\* sends (of the config object the name and the icon are left out)
publish_system_discovery_config(sensor, device_name) ==
    LET unique_id == ORBIQ \o device_name \o <<"_">> \o sensor.name
        object_id == ORBIQ \o device_name \o <<"_">> \o sensor.name
        config_topic ==
            TOPIC_HEAD \o device_name \o <<"/">> \o sensor.name
                \o <<"/">> \o SUB_CONFIG
        state_topic ==
            TOPIC_HEAD \o device_name \o <<"/">> \o sensor.name
                \o <<"/">> \o SUB_STATE
        availability_topic ==
            TOPIC_HEAD \o device_name \o <<"/">> \o sensor.name
                \o <<"/">> \o SUB_AVAILABILITY
        config ==
            [unique_id |-> unique_id,
             object_id |-> object_id,
             state_topic |-> state_topic,
             unit_of_measurement |-> sensor.unit,
             device_class |-> system_device_class(sensor.sensor_type),
             state_class |-> MEASUREMENT,
             value_template |-> VALUE_TEMPLATE,
             availability |-> [topic |-> availability_topic,
                               payload_available |-> ONLINE,
                               payload_not_available |-> OFFLINE],
             device |-> from_config(device_name)]
    IN  [topic |-> config_topic, payload |-> config, retain |-> TRUE]

\* the body keyed by the name of the sensor
system_state_name_key(sensor, device_name) ==
    [topic |-> topic(Topic(sensor.name, device_name, SUB_STATE)),
     payload |-> <<Member(sensor.name, sensor.value)>>,
     retain |-> FALSE]

\* homeassistant.rs:271-286
system_state(sensor, device_name) ==
    [topic |-> topic(Topic(sensor.name, device_name, SUB_STATE)),
     payload |-> <<Member(<<"v", "a", "l", "u", "e">>, sensor.value)>>,
     retain |-> FALSE]

\* homeassistant.rs:288-303   the message publish_system_sensor_availability
\* sends
publish_system_sensor_availability(sensor_name, device_name, available) ==
    [topic |-> TOPIC_HEAD \o device_name \o <<"/">> \o sensor_name
                   \o <<"/">> \o SUB_AVAILABILITY,
     payload |-> IF available THEN ONLINE ELSE OFFLINE,
     retain |-> TRUE]

\* pieces of names: a letter, the topic separator and two sub-topic words
NameChunks == {<<"a">>, <<"/">>, SUB_STATE, SUB_CONFIG}

RECURSIVE Flatten(_)
Flatten(chunks) ==
    IF chunks = <<>> THEN <<>> ELSE Head(chunks) \o Flatten(Tail(chunks))

\* temperature_sensor.rs:106, system_sensor.rs:42-123   sensor names
SensorNames ==
    {Flatten(c) : c \in UNION {[1..n -> NameChunks] : n \in 1..MaxChunks}}

\* config.rs   device.name of the configuration
DeviceNames == NameChunks

\* two sensors of one device are about to have their payloads built
TopicInit ==
    /\ ProgramInit
    /\ input \in [device_name : DeviceNames, a : SensorNames, b : SensorNames]
    /\ output = <<>>

\* main.rs:58-61   the payloads of both sensors are built
BuildTopics ==
    /\ output = <<>>
    /\ output' = <<[a |-> topics_of(input.a, input.device_name),
                    b |-> topics_of(input.b, input.device_name)]>>
    /\ UNCHANGED <<input, orchVars, envVars>>

TopicNext == BuildTopics

TopicSpec == TopicInit /\ [][TopicNext]_vars

\* ----------------------------------------------------------- the payloads
\* names of temperature sensors, one for some arms of generate_friendly_name
PayloadSensorNames ==
    {<<"k", "1", "0", "t", "e", "m", "p", "_", "1">>,
     <<"n", "v", "m", "e", "_", "1">>,
     <<"c", "o", "r", "e", "t", "e", "m", "p", "_", "2">>,
     <<"a", "c", "p", "i", "t", "z", "_", "1">>,
     <<"i", "t", "8", "6", "8", "8", "_", "3">>}

\* temperatures as read_temperature_value returns them: 42.5 and 38.5
PayloadTemperatures == {Quotient(42500, 1000), Quotient(38500, 1000)}

\* config.rs:20   device.name
PayloadDeviceNames ==
    {<<"d", "e", "s", "k">>,
     <<"r", "a", "c", "k", " ", "1">>}

\* global_cpu_usage() is an f32: 0, 42.5, and 11107025 / 2^18, the f32 next
\* to 42.37
CpuReadings == {Quotient(0, 1), Quotient(85, 2), Quotient(11107025, 262144)}

\* used_memory() in MiB: 8589934592 bytes, and 127 MiB more
UsedMemoryReadings == {8192, 8319}

\* total_memory() in MiB
TotalMemoryReadings == {0, 16384}

\* Disks::new_with_refreshed_list()
DiskReadings ==
    {<<>>,
     <<[mount_point |-> <<"/">>, total_space |-> 102400,
        available_space |-> 40960]>>,
     <<[mount_point |-> <<"/", "m", "n", "t", "/", "m", "y", " ", "d", "i",
         "s", "k", "/">>,
        total_space |-> 0, available_space |-> 0]>>}

SystemReadings ==
    [global_cpu_usage : CpuReadings, used_memory : UsedMemoryReadings,
     total_memory : TotalMemoryReadings, disks : DiskReadings]

PayloadInputs ==
    [kind : {"temperature"}, device_name : PayloadDeviceNames,
     sensor : [name : PayloadSensorNames, temperature : PayloadTemperatures],
     available : BOOLEAN]
        \cup [kind : {"system"}, device_name : PayloadDeviceNames,
              readings : SystemReadings, available : BOOLEAN]

\* the messages the daemon builds for a temperature sensor: main.rs:55-61
\* (discovery, state, availability) and main.rs:135, 168 (availability of the
\* refresh and of the offline pass)
temperature_messages(sensor, device_name, available) ==
    [kind |-> "temperature",
     sensor |-> sensor,
     discovery |-> discovery_config(sensor.name, device_name),
     state |-> temperature_state(sensor, device_name),
     availability |->
         <<sensor_availability(sensor.name, device_name, available),
           publish_sensor_availability(sensor.name, device_name, available)>>]

\* the messages the daemon sends for a system sensor: main.rs:93-99
\* (discovery), main.rs:106-111, 147-153, 175 (availability), main.rs:121-123
\* (state)
system_messages(sensor, device_name, available) ==
    [kind |-> "system",
     sensor |-> sensor,
     discovery |-> publish_system_discovery_config(sensor, device_name),
     state |-> system_state(sensor, device_name),
     availability |->
         <<publish_system_sensor_availability(sensor.name, device_name,
                                              available)>>]

\* the messages of a sensor are about to be built
PayloadInit ==
    /\ ProgramInit
    /\ input \in PayloadInputs
    /\ output = <<>>

\* main.rs:55-61   the messages of one temperature sensor
BuildTemperaturePayloads ==
    /\ output = <<>>
    /\ input.kind = "temperature"
    /\ output' = <<<<temperature_messages(input.sensor, input.device_name,
                                          input.available)>>>>
    /\ UNCHANGED <<input, orchVars, envVars>>

\* main.rs:50, 91-126   collect_system_stats() and the messages of each sensor
BuildSystemPayloads ==
    /\ output = <<>>
    /\ input.kind = "system"
    /\ LET sensors == collect_system_stats_from(input.readings)
       IN  output' = <<[k \in 1..Len(sensors) |->
                           system_messages(sensors[k], input.device_name,
                                           input.available)]>>
    /\ UNCHANGED <<input, orchVars, envVars>>

PayloadNext == BuildTemperaturePayloads \/ BuildSystemPayloads

PayloadSpec == PayloadInit /\ [][PayloadNext]_vars

\* =================================================================== claims
\* a step in which publish_task made a publish call, and that call
PublishStep == Len(log') = Len(log) + 1

Published == log'[Len(log')]

EventsOf(k) == SelectSeq(log, LAMBDA ev : ev.k = k)

\* one event of kind k per snapshot entry, temperature entries first
SnapshotEvents(k) ==
    [j \in 1..Len(temp_sensors) |-> Event(k, "temp", j, temp_sensors[j])]
        \o [j \in 1..Len(system_sensors) |-> Event(k, "sys", j, system_sensors[j])]

SameEntry(a, b) == a.g = b.g /\ a.e = b.e

DiscoveryKinds == {"discovery_ok", "discovery_err"}

ShutdownPcs ==
    {"off_temp", "off_temp_delay", "off_collect_sys", "off_sys",
     "off_sys_delay", "done"}

AfterStatesPcs ==
    {"incr", "r_temp", "r_temp_delay", "r_sys", "r_sys_delay", "sleep"}

OfflinePassComplete ==
    /\ pc = "done"
    /\ log = SnapshotEvents("offline")

\* C1: no discovery publish (successful or not) is ever made for an identity
\* whose discovery publish has already succeeded in this run.
DiscoveryOnce ==
    [][(PublishStep /\ Published.k \in DiscoveryKinds)
          => Published.n \notin discoveredOk]_vars

\* a later cycle publishes the state of a discovered identity without any
\* discovery publish for it
DiscoveryOnceWitness ==
    /\ cycle_counter >= 1
    /\ \E j \in 1..Len(log) :
          /\ log[j].k = "state"
          /\ log[j].n \in discoveredOk
          /\ \A m \in 1..Len(log) :
                log[m].n = log[j].n => log[m].k \notin DiscoveryKinds

\* C2 (as stated): after a failed discovery publish for a sensor, no
\* availability(true) is published for that sensor in the same cycle, the
\* refresh included.
NoAvailabilityAfterFailedDiscovery ==
    \A j \in 1..Len(log) :
        log[j].k = "discovery_err" =>
            \A m \in 1..Len(log) :
                SameEntry(log[m], log[j]) =>
                    log[m].k \notin {"availability", "refresh"}

\* C2 (amended): a failed discovery publish leaves the discovered sets as they
\* were and is followed by the delay, not by availability(true); the only
\* availability(true) such a sensor can get in that cycle is the refresh of a
\* cycle with cycle_counter % 20 = 0; and a sensor that ends a cycle outside
\* the discovered set had its discovery attempted in that cycle.
FailedDiscoveryIsRetried ==
    /\ [][(PublishStep /\ Published.k = "discovery_err")
             => (/\ published_temp_sensors' = published_temp_sensors
                 /\ published_system_sensors' = published_system_sensors
                 /\ pc' \in {"t_delay", "s_delay"})]_vars
    /\ [](\A j \in 1..Len(log) :
             log[j].k = "discovery_err" =>
                 \A m \in 1..Len(log) :
                     SameEntry(log[m], log[j]) =>
                         /\ log[m].k # "availability"
                         /\ log[m].k = "refresh"
                               => cycle_counter % RefreshEvery = 0)
    /\ [](pc \in AfterStatesPcs =>
             /\ \A j \in 1..Len(temp_sensors) :
                   temp_sensors[j] \notin published_temp_sensors =>
                       Event("discovery_err", "temp", j, temp_sensors[j])
                           \in {log[m] : m \in 1..Len(log)}
             /\ \A j \in 1..Len(system_sensors) :
                   system_sensors[j] \notin published_system_sensors =>
                       Event("discovery_err", "sys", j, system_sensors[j])
                           \in {log[m] : m \in 1..Len(log)})

\* a refresh cycle in which the discovery publish of a sensor failed and the
\* refresh has published availability(true) for it all the same
FailedDiscoveryIsRetriedWitness ==
    /\ pc = "sleep"
    /\ \E j \in 1..Len(log), m \in 1..Len(log) :
          /\ log[j].k = "discovery_err"
          /\ log[m].k = "refresh"
          /\ SameEntry(log[m], log[j])
          /\ log[j].n \notin discoveredOk

\* C3: within a cycle, the availability(true) of a newly discovered sensor
\* directly follows its successful discovery publish, and its state publish
\* comes after both.
Sequencing ==
    /\ \A j \in 1..Len(log) :
          log[j].k = "availability" =>
              /\ j > 1
              /\ log[j - 1].k = "discovery_ok"
              /\ SameEntry(log[j - 1], log[j])
    /\ \A j \in 1..Len(log) :
          (/\ log[j].k = "state"
           /\ \E d \in 1..Len(log) :
                 log[d].k = "discovery_ok" /\ SameEntry(log[d], log[j]))
          => \E d \in 1..(j - 1) :
                 /\ d + 1 < j
                 /\ log[d].k = "discovery_ok" /\ SameEntry(log[d], log[j])
                 /\ log[d + 1].k = "availability"
                 /\ SameEntry(log[d + 1], log[j])
    /\ \A d \in 1..Len(log) :
          (log[d].k = "discovery_ok" /\ pc \in AfterStatesPcs)
          => \E j \in (d + 2)..Len(log) :
                 log[j].k = "state" /\ SameEntry(log[d], log[j])

\* a cycle in which a temperature sensor and a system sensor were both newly
\* discovered and have had their state published
SequencingWitness ==
    /\ pc = "incr"
    /\ \E d \in 1..Len(log) : log[d].k = "discovery_ok" /\ log[d].g = "temp"
    /\ \E d \in 1..Len(log) : log[d].k = "discovery_ok" /\ log[d].g = "sys"

\* C4: when the process has exited after publish_task took its shutdown
\* branch, every entry of the fresh snapshot has had exactly one
\* availability(false) publish.
ShutdownCompleteness ==
    (exited /\ pc \in ShutdownPcs) => OfflinePassComplete

\* C5: when the process has exited after a SIGINT that came while publish_task
\* was inside a cycle, a complete offline pass has been made.
MidCycleSignalMarksOffline ==
    (exited /\ signalMidCycle) => OfflinePassComplete

\* the offline pass has started and availability(false) of the last entry of
\* the fresh snapshot is still to be published
OfflinePassPending ==
    /\ pc \in ShutdownPcs \ {"done"}
    /\ ~(pc = "off_sys_delay" /\ i = Len(system_sensors))

\* C6: while the offline pass is pending the process does not exit.
OfflinePassUninterruptible ==
    [][(~exited /\ OfflinePassPending) => ~exited']_vars

\* C7: from the shutdown branch on, publish_task stays on the shutdown path,
\* leaves the cycle counter and the discovered sets alone and publishes
\* nothing but availability(false).
NoCycleAfterShutdown ==
    [][(pc \in ShutdownPcs) =>
          (/\ pc' \in ShutdownPcs
           /\ cycle_counter' = cycle_counter
           /\ published_temp_sensors' = published_temp_sensors
           /\ published_system_sensors' = published_system_sensors
           /\ (PublishStep => Published.k = "offline"))]_vars

\* the loop has ended after an offline pass over a temperature and the system
\* sensors
NoCycleAfterShutdownWitness ==
    /\ pc = "done"
    /\ cycle_counter >= 1
    /\ Len(temp_sensors) >= 1
    /\ log = SnapshotEvents("offline")

\* C8: refresh publishes exist only in a cycle whose counter, after the
\* increment, is a multiple of 20, and such a cycle refreshes every entry of
\* its snapshot once; any other cycle ends without a refresh publish.
RefreshCadence ==
    /\ (\E j \in 1..Len(log) : log[j].k = "refresh")
          => (cycle_counter > 0 /\ cycle_counter % RefreshEvery = 0)
    /\ pc = "sleep" =>
          EventsOf("refresh") =
              IF cycle_counter % RefreshEvery = 0
              THEN SnapshotEvents("refresh") ELSE <<>>

\* the 20th cycle has ended with a refresh of a temperature and a system sensor
RefreshCadenceWitness ==
    /\ pc = "sleep"
    /\ cycle_counter = RefreshEvery
    /\ Len(temp_sensors) >= 1
    /\ EventsOf("refresh") = SnapshotEvents("refresh")

\* C9: once the state loops of a cycle are over, the state publishes of the
\* cycle are exactly one per snapshot entry, in snapshot order, whether or not
\* the entry is in a discovered set.
StateForEverySnapshotEntry ==
    pc \in AfterStatesPcs => EventsOf("state") = SnapshotEvents("state")

\* a cycle has published the state of a sensor whose discovery just failed
\* while another identity of the run is discovered and absent from the snapshot
StateForEverySnapshotEntryWitness ==
    /\ pc = "sleep"
    /\ \E j \in 1..Len(log) : log[j].k = "discovery_err"
    /\ \E n \in published_temp_sensors :
          \A j \in 1..Len(temp_sensors) : temp_sensors[j] # n
    /\ EventsOf("state") = SnapshotEvents("state")

\* C10: a publish call that returns Err leaves the cycle counter alone and
\* leaves publish_task inside its cycle (or inside the offline pass); every
\* cycle reaches the select with the counter incremented; and the loop is left
\* only at the end of an offline pass.
PublishFailureNeverAborts ==
    /\ [][(PublishStep /\ last_result' = "err") =>
             (/\ cycle_counter' = cycle_counter
              /\ pc' \in (MidCycle \cup ShutdownPcs) \ {"done"}
              /\ (pc \in ShutdownPcs) <=> (pc' \in ShutdownPcs))]_vars
    /\ [](pc = "done" => OfflinePassComplete)
    /\ [][pc' = "sleep" =>
             (\/ pc = "sleep"
              \/ (pc = "incr" /\ cycle_counter' = cycle_counter + 1)
              \/ pc \in {"r_temp_delay", "r_sys_delay"})]_vars

\* the last state publish of a cycle has failed and the task is at the
\* increment of the counter
PublishFailureNeverAbortsWitness ==
    /\ pc = "incr"
    /\ last_result = "err"
    /\ log[Len(log)].k = "state"

\* C11: a publish call that returns Err (discovery, availability, state,
\* refresh or offline) leaves the discovered sets and the cycle counter as
\* they were; a discovered set changes only in the step of a discovery publish
\* that returned Ok, by the name just published; the cycle counter changes only
\* in the increment step of the iteration, by one.
FailedPublishLeavesPublishState ==
    /\ [][(PublishStep /\ last_result' = "err") =>
             UNCHANGED <<published_temp_sensors, published_system_sensors,
                         cycle_counter>>]_vars
    /\ [][(published_temp_sensors' # published_temp_sensors) =>
             (/\ PublishStep /\ last_result' = "ok"
              /\ Published.k = "discovery_ok" /\ Published.g = "temp"
              /\ published_temp_sensors' =
                     published_temp_sensors \cup {Published.n})]_vars
    /\ [][(published_system_sensors' # published_system_sensors) =>
             (/\ PublishStep /\ last_result' = "ok"
              /\ Published.k = "discovery_ok" /\ Published.g = "sys"
              /\ published_system_sensors' =
                     published_system_sensors \cup {Published.n})]_vars
    /\ [][(cycle_counter' # cycle_counter) =>
             (/\ pc = "incr" /\ ~PublishStep
              /\ cycle_counter' = cycle_counter + 1)]_vars

\* in a refresh cycle a discovery publish has failed, the last refresh publish
\* has failed too, and the discovered sets still hold what succeeded earlier
FailedPublishLeavesPublishStateWitness ==
    /\ last_result = "err"
    /\ log[Len(log)].k = "refresh"
    /\ \E j \in 1..Len(log) :
          log[j].k = "discovery_err" /\ log[j].n \notin discoveredOk
    /\ published_system_sensors # {}
    /\ cycle_counter = RefreshEvery

\* C12: the discovered sets only grow: every step leaves each of them a
\* superset of what it was (so every state holds a superset of every earlier
\* state of the run), and they hold exactly the identities whose discovery
\* publish has returned Ok.
DiscoveredSetsOnlyGrow ==
    /\ [][/\ published_temp_sensors \subseteq published_temp_sensors'
          /\ published_system_sensors \subseteq published_system_sensors']_vars
    /\ [](discoveredOk = published_temp_sensors \cup published_system_sensors)

\* a later cycle has ended whose snapshots lack a discovered temperature
\* sensor and a discovered disk sensor, both still in the discovered sets
DiscoveredSetsOnlyGrowWitness ==
    /\ pc = "sleep"
    /\ cycle_counter >= 2
    /\ \E n \in published_temp_sensors :
          \A j \in 1..Len(temp_sensors) : temp_sensors[j] # n
    /\ \E n \in published_system_sensors :
          \A j \in 1..Len(system_sensors) : system_sensors[j] # n

\* C13: the increment of an iteration never resets or decreases the cycle
\* counter, whatever the number of iterations behind it: the counter after
\* cycle_counter += 1 is greater than before, and the task has not panicked.
CounterNeverResets ==
    Len(output) = 1 =>
        /\ ~output[1].panicked
        /\ U32Less(input, output[1].value)

\* C14: main returns only when publish_task has finished or Ctrl-C has
\* arrived, and each of the two is enough on its own: whenever one has
\* happened main can return at once, wherever publish_task and the poll loop
\* are.  The poll loop itself never finishes while the process runs.
ShutdownOnAnyTrigger ==
    /\ exited => (pc = "done" \/ mainSignalled)
    /\ (Running /\ pc = "done") => ENABLED MainTaskDone
    /\ (Running /\ mainSignalled) => ENABLED MainCtrlC
    /\ Running => supervisor \in {"polling", "backoff"}

\* the process has exited on Ctrl-C while publish_task was inside a cycle
ShutdownOnAnyTriggerWitness ==
    /\ exited
    /\ mainSignalled
    /\ pc \in MidCycle
    /\ cycle_counter >= 1

\* C15: an Err of poll() sends the poll loop into its 5 s back-off and
\* changes nothing else; the back-off ends in another poll (unless main has
\* returned for one of its own reasons); the process never exits because of
\* an error; and during the back-off publish_task can take its next step as
\* it could without the error.
SupervisorSurvivesErrors ==
    /\ [][(supervisor = "polling" /\ supervisor' # "polling") =>
             (\/ (supervisor' = "backoff" /\ ~exited' /\ UNCHANGED orchVars)
              \/ (exited' /\ (pc = "done" \/ mainSignalled)))]_vars
    /\ [][(supervisor = "backoff" /\ supervisor' # "backoff") =>
             (\/ (supervisor' = "polling" /\ ~exited')
              \/ (exited' /\ (pc = "done" \/ mainSignalled)))]_vars
    /\ [](supervisor = "backoff" => (Running /\ ENABLED BackoffElapsed))
    /\ [](supervisor = "backoff" =>
             (ENABLED PublishTask <=>
                 /\ pc # "done"
                 /\ pc = "sleep" => (cycle_counter < MaxCycles \/ orchSignalled)))

\* the poll loop is in its back-off and publish_task has completed cycles
SupervisorSurvivesErrorsWitness ==
    /\ supervisor = "backoff"
    /\ pc = "sleep"
    /\ cycle_counter >= 2
    /\ ~exited

\* positions of publish_task in which the snapshots and the log are those of
\* the cycle it is in
InCycle == (MidCycle \ {"collect"}) \cup {"sleep"}

SleepPcs ==
    {"t_delay", "s_pause", "s_delay", "r_temp_delay", "r_sys_delay", "sleep"}

\* C17: a SIGINT that arrives while publish_task is in any sleep of a cycle
\* makes a ctrl_c() of publish_task ready, so that the task leaves the sleep
\* for its shutdown branch.
EverySleepObservesSignal ==
    [][(Signal /\ pc \in SleepPcs) => orchSignalled']_vars

\* C18: every step of the poll loop, of signal delivery and of the top-level
\* select leaves the discovered sets and the cycle counter as they were, and
\* whether such a step can be taken depends on no part of them.
OrchestratorOwnsPublishState ==
    /\ [][(\/ supervisor' # supervisor
           \/ mainSignalled' # mainSignalled
           \/ signalMidCycle' # signalMidCycle
           \/ exited' # exited) =>
             UNCHANGED <<published_temp_sensors, published_system_sensors,
                         cycle_counter>>]_vars
    /\ [](ENABLED PollError <=> (Running /\ supervisor = "polling"))
    /\ [](ENABLED BackoffElapsed <=> (Running /\ supervisor = "backoff"))
    /\ [](ENABLED MainCtrlC <=> (Running /\ mainSignalled))
    /\ [](ENABLED MainTaskDone <=> (Running /\ pc = "done"))

\* the poll loop has had an error and SIGINT has arrived after publish_task
\* discovered sensors and completed a cycle
OrchestratorOwnsPublishStateWitness ==
    /\ supervisor = "backoff"
    /\ mainSignalled
    /\ published_temp_sensors # {}
    /\ published_system_sensors # {}
    /\ cycle_counter >= 1

\* C19: collect_all_temperatures() never returns two sensors with the same
\* name, whatever the hwmon directories, their name files and their value
\* files are.
SnapshotNamesUnique ==
    Len(output) = 1 =>
        \A a, b \in 1..Len(output[1]) :
            a # b => output[1][a].name # output[1][b].name

PayloadKinds == {"config", "state", "availability"}

\* C20: for one device, the topics are a function of the sensor name and the
\* payload kind (equal names give equal topics) and an injective one: two
\* different sensor names differ in each of their three topics, and a topic of
\* one kind never equals a topic of another kind, of the same or of the other
\* sensor.
TopicsInjective ==
    Len(output) = 1 =>
        /\ input.a = input.b => output[1].a = output[1].b
        /\ input.a # input.b =>
               \A k \in PayloadKinds : output[1].a[k] # output[1].b[k]
        /\ \A k1, k2 \in PayloadKinds :
               k1 # k2 =>
                   /\ output[1].a[k1] # output[1].a[k2]
                   /\ output[1].a[k1] # output[1].b[k2]
                   /\ output[1].b[k1] # output[1].b[k2]

\* the topics have been built for a sensor named like a sub-topic and one
\* whose name begins with the topic separator
TopicsInjectiveWitness ==
    /\ Len(output) = 1
    /\ input.a = SUB_STATE
    /\ input.b = <<"/">> \o SUB_STATE

\* the topic the specification gives for a sensor and a payload kind
SpecTopic(device_name, sensor_name, kind) ==
    <<"h", "o", "m", "e", "a", "s", "s", "i", "s", "t", "a", "n", "t", "/",
        "s", "e", "n", "s", "o", "r", "/", "o", "r", "b", "i", "q", "_">> \o
        device_name \o <<"/">> \o sensor_name \o <<"/">> \o kind

\* the messages built from the input
Built == {output[1][k] : k \in 1..Len(output[1])}

\* C21: every discovery message goes to .../<sensor_name>/config retained,
\* every state message to .../<sensor_name>/state not retained, and every
\* availability message to .../<sensor_name>/availability retained with the
\* body "online" when the sensor is available and "offline" when it is not.
PayloadTopicsAndRetain ==
    Len(output) = 1 =>
        \A m \in Built :
            /\ m.discovery.topic =
                   SpecTopic(input.device_name, m.sensor.name, <<"c", "o",
                       "n", "f", "i", "g">>)
            /\ m.discovery.retain
            /\ m.state.topic =
                   SpecTopic(input.device_name, m.sensor.name, <<"s", "t",
                       "a", "t", "e">>)
            /\ ~m.state.retain
            /\ \A k \in 1..Len(m.availability) :
                  /\ m.availability[k].topic =
                         SpecTopic(input.device_name, m.sensor.name, <<"a",
                             "v", "a", "i", "l", "a", "b", "i", "l", "i",
                             "t", "y">>)
                  /\ m.availability[k].retain
                  /\ m.availability[k].payload =
                         IF input.available THEN <<"o", "n", "l", "i", "n",
                             "e">> ELSE <<"o", "f", "f", "l", "i", "n", "e">>

\* the messages of the sensors of a system with a disk have been built, the
\* availability ones for a sensor that is not available
PayloadTopicsAndRetainWitness ==
    /\ Len(output) = 1
    /\ input.kind = "system"
    /\ ~input.available
    /\ Len(output[1]) > 4

\* equality of two exact quotients
SameNumber(a, b) == a.num * b.den = b.num * a.den

\* the scenario: sensor k10temp_1 of device "desk" reads 42.5
ScenarioBuilt ==
    /\ Len(output) = 1
    /\ input.kind = "temperature"
    /\ input.device_name = <<"d", "e", "s", "k">>
    /\ input.sensor.name = <<"k", "1", "0", "t", "e", "m", "p", "_", "1">>
    /\ SameNumber(input.sensor.temperature, Quotient(85, 2))

\* what the scenario says of the discovery message
ScenarioDiscovery(m) ==
    /\ m.discovery.topic = <<"h", "o", "m", "e", "a", "s", "s", "i", "s",
        "t", "a", "n", "t", "/", "s", "e", "n", "s", "o", "r", "/", "o", "r",
        "b", "i", "q", "_", "d", "e", "s", "k", "/", "k", "1", "0", "t", "e",
        "m", "p", "_", "1", "/", "c", "o", "n", "f", "i", "g">>
    /\ m.discovery.payload.device_class = <<"t", "e", "m", "p", "e", "r",
        "a", "t", "u", "r", "e">>
    /\ m.discovery.payload.name = <<"C", "P", "U", " ", "T", "e", "m", "p",
        "e", "r", "a", "t", "u", "r", "e">>

\* the state body is the JSON object with the one member key: 42.5
ScenarioBody(m, key) ==
    /\ Len(m.state.payload) = 1
    /\ m.state.payload[1].key = key
    /\ SameNumber(m.state.payload[1].value, Quotient(85, 2))

\* C22 as stated: for sensor k10temp_1 of device "desk" reading 42.5 the
\* discovery topic is homeassistant/sensor/orbiq_desk/k10temp_1/config, the
\* device_class "temperature", the friendly name "CPU Temperature", and the
\* state body {"value": 42.5}.
ScenarioK10tempValueBody ==
    ScenarioBuilt =>
        \A m \in Built : ScenarioDiscovery(m) /\ ScenarioBody(m, <<"v", "a",
            "l", "u", "e">>)

\* C22: for sensor k10temp_1 of device "desk" reading 42.5 the discovery
\* topic is homeassistant/sensor/orbiq_desk/k10temp_1/config, the
\* device_class "temperature", the friendly name "CPU Temperature", and the
\* state body {"temperature": 42.5}.
ScenarioK10temp ==
    ScenarioBuilt =>
        \A m \in Built :
            ScenarioDiscovery(m) /\ ScenarioBody(m, <<"t", "e", "m", "p",
                "e", "r", "a", "t", "u", "r", "e">>)

\* the messages of the scenario have been built
ScenarioK10tempWitness ==
    /\ ScenarioBuilt
    /\ input.available
    /\ Built # {}

\* the number shown has at most `places` decimals (scale = 10^places) and is
\* the raw number rounded to them, half away from zero
AppearsRounded(shown, raw, scale) ==
    /\ (shown.num * scale) % shown.den = 0
    /\ (shown.num * scale) \div shown.den =
           (raw.num * scale * 2 + raw.den) \div (2 * raw.den)

\* C23: the state payload of cpu_usage carries the raw CPU reading rounded to
\* one decimal place (42.37 appears as 42.4), and the state payload of
\* memory_used carries the used bytes divided by 1024^3 rounded to two
\* decimal places (8589934592 bytes appear as 8.00).
StateValuesRounded ==
    (Len(output) = 1 /\ input.kind = "system") =>
        \A m \in Built :
            /\ m.sensor.name = <<"c", "p", "u", "_", "u", "s", "a", "g",
                "e">> =>
                   AppearsRounded(m.state.payload[1].value,
                                  input.readings.global_cpu_usage, 10)
            /\ m.sensor.name = <<"m", "e", "m", "o", "r", "y", "_", "u", "s",
                "e", "d">> =>
                   AppearsRounded(m.state.payload[1].value,
                                  Quotient(input.readings.used_memory,
                                           MiBPerGiB), 100)

\* the discovered set and the snapshot of a group of sensors
DiscoveredOf(g) ==
    IF g = "temp" THEN published_temp_sensors ELSE published_system_sensors

SnapshotOf(g) == IF g = "temp" THEN temp_sensors ELSE system_sensors

SnapshotNames(g) == {SnapshotOf(g)[k] : k \in 1..Len(SnapshotOf(g))}

\* a cycle has taken its snapshot and made no publish call yet
CycleStarted ==
    /\ pc \in {"t_disc", "t_state", "s_disc", "s_state"}
    /\ log = <<>>

\* n is discovered, and where this cycle's log holds a successful discovery
\* of n the next publish call was the availability(true) of n
AnnouncedInCycle(g, n) ==
    /\ n \in DiscoveredOf(g)
    /\ \A k \in 1..Len(log) :
          (log[k].k = "discovery_ok" /\ log[k].g = g /\ log[k].n = n) =>
              /\ k < Len(log)
              /\ log[k + 1].k = "availability" /\ log[k + 1].g = g
              /\ log[k + 1].n = n

\* in this cycle the transport failed the discovery of n, which stays
\* undiscovered
DiscoveryFailedInCycle(g, n) ==
    /\ n \notin DiscoveredOf(g)
    /\ \E k \in 1..Len(log) :
          log[k].k = "discovery_err" /\ log[k].g = g /\ log[k].n = n

\* the cycle is at its select with every sensor of the snapshot settled
CycleSettled ==
    /\ pc = "sleep"
    /\ \A g \in {"temp", "sys"} : \A n \in SnapshotNames(g) :
          AnnouncedInCycle(g, n) \/ DiscoveryFailedInCycle(g, n)

RefreshesOf(g, n) ==
    {k \in 1..Len(log) :
        log[k].k = "refresh" /\ log[k].g = g /\ log[k].n = n}

\* positions of the snapshot of group g that hold sensor n
EntriesOf(g, n) == {j \in 1..Len(SnapshotOf(g)) : SnapshotOf(g)[j] = n}

\* C25: a refresh publish always names a sensor of the current snapshot, and
\* when a refresh cycle (counter a multiple of 20) is at its end every sensor
\* has had as many refresh publishes as the snapshot has entries for it (one
\* for a sensor that is in it, none for a discovered sensor that is absent),
\* those of the temperature sensors before those of the system sensors.
RefreshCoversSnapshotOnly ==
    /\ \A k \in 1..Len(log) :
          log[k].k = "refresh" => log[k].n \in SnapshotNames(log[k].g)
    /\ (pc = "sleep" /\ IsRefreshCycle(cycle_counter)) =>
          /\ \A g \in {"temp", "sys"} :
                \A n \in SnapshotNames(g) \cup DiscoveredOf(g) :
                    Cardinality(RefreshesOf(g, n)) =
                        Cardinality(EntriesOf(g, n))
          /\ \A a, b \in 1..Len(log) :
                (log[a].k = "refresh" /\ log[b].k = "refresh"
                    /\ log[a].g = "temp" /\ log[b].g = "sys") => a < b

\* a refresh cycle has ended; a temperature sensor is discovered but not in
\* the snapshot, which holds another one, and the disk sensor is discovered
\* but its disk is not mounted
RefreshCoversSnapshotOnlyWitness ==
    /\ pc = "sleep"
    /\ cycle_counter = RefreshEvery
    /\ Len(temp_sensors) >= 1
    /\ published_temp_sensors \ SnapshotNames("temp") # {}
    /\ published_system_sensors \ SnapshotNames("sys") # {}
    /\ Len(EventsOf("refresh")) = Len(temp_sensors) + Len(system_sensors)

\* the template that reads member `key` of the state body
TemplateFor(key) == <<"{", "{", " ", "v", "a", "l", "u", "e", "_", "j", "s",
    "o", "n", ".">> \o key \o <<" ", "}", "}">>

\* C26: for every sensor, temperature or system, the state_topic of the
\* discovery payload is the topic of the state message, the availability
\* topic of the discovery payload is the topic of every availability
\* message, and the value_template reads the one key the state body has.
DiscoveryPointsAtState ==
    Len(output) = 1 =>
        \A m \in Built :
            /\ m.discovery.payload.state_topic = m.state.topic
            /\ \A k \in 1..Len(m.availability) :
                  m.discovery.payload.availability.topic =
                      m.availability[k].topic
            /\ Len(m.state.payload) = 1
            /\ m.discovery.payload.value_template =
                   TemplateFor(m.state.payload[1].key)

\* the messages of a temperature sensor whose name falls to no arm of the
\* friendly names, on a device with a space in its name, have been built
DiscoveryPointsAtStateWitness ==
    /\ Len(output) = 1
    /\ input.kind = "temperature"
    /\ input.device_name = <<"r", "a", "c", "k", " ", "1">>
    /\ input.sensor.name = <<"i", "t", "8", "6", "8", "8", "_", "3">>
    /\ \E m \in Built : m.state.payload[1].key = TEMPERATURE

\* the discovered set of group g after the step
DiscoveredAfter(g) ==
    IF g = "temp" THEN published_temp_sensors' ELSE published_system_sensors'

\* C27: the availability(true) publish that follows a discovery finds the
\* identity in the discovered set and leaves it there whether it returns Ok
\* or Err; it is made only directly after the successful discovery of that
\* identity, a discovery is published only for an identity outside the
\* discovered set, and any other availability(true) publish is a refresh in
\* a cycle whose counter is a multiple of 20.
FailedAvailabilityKeepsDiscovery ==
    [][PublishStep =>
          /\ Published.k = "availability" =>
                /\ log # <<>>
                /\ log[Len(log)] = Event("discovery_ok", Published.g,
                                         Published.e, Published.n)
                /\ Published.n \in DiscoveredOf(Published.g)
                /\ Published.n \in DiscoveredAfter(Published.g)
          /\ Published.k \in DiscoveryKinds =>
                Published.n \notin DiscoveredOf(Published.g)
          /\ Published.k = "refresh" => IsRefreshCycle(cycle_counter)]_vars

\* the availability(true) publish after the discovery of a temperature
\* sensor has just failed in a cycle after the first; the sensor is in the
\* discovered set
FailedAvailabilityKeepsDiscoveryWitness ==
    /\ last_result = "err"
    /\ cycle_counter >= 1
    /\ log # <<>>
    /\ log[Len(log)].k = "availability"
    /\ log[Len(log)].g = "temp"
    /\ log[Len(log)].n \in published_temp_sensors

\* positions of the log that hold an availability(false) of sensor n of group g
OfflinesOf(g, n) ==
    {k \in 1..Len(log) :
        log[k].k = "offline" /\ log[k].g = g /\ log[k].n = n}

\* C28: on the shutdown path every publish call is the availability(false)
\* of a sensor of the fresh snapshot, whether or not that sensor was ever
\* discovered, and when the pass is over every sensor, discovered or not,
\* has had as many availability(false) publishes as the fresh snapshot has
\* entries for it: none for a discovered sensor that is absent from it.
OfflinePassFollowsFreshSnapshot ==
    pc \in ShutdownPcs =>
        /\ \A k \in 1..Len(log) :
              /\ log[k].k = "offline"
              /\ log[k].n \in SnapshotNames(log[k].g)
        /\ pc = "done" =>
              \A g \in {"temp", "sys"} :
                  \A n \in SnapshotNames(g) \cup DiscoveredOf(g) :
                      Cardinality(OfflinesOf(g, n)) =
                          Cardinality(EntriesOf(g, n))

\* the offline pass is over: a discovered temperature sensor is absent from
\* the fresh snapshot and got nothing; the snapshot holds a temperature
\* sensor that was never discovered, which was marked offline
OfflinePassFollowsFreshSnapshotWitness ==
    /\ pc = "done"
    /\ published_temp_sensors \ SnapshotNames("temp") # {}
    /\ \E j \in 1..Len(temp_sensors) :
          /\ temp_sensors[j] \notin published_temp_sensors
          /\ OfflinesOf("temp", temp_sensors[j]) # {}

\* the value files of the file system whose content can be read and parsed:
\* pairs of a directory number and a position of its listing
ReadableValueFiles ==
    {<<d, e>> \in (1..Len(input.dirs)) \X (1..MaxFiles + 1) :
        /\ e <= Len(input.dirs[d].entries)
        /\ input.dirs[d].entries[e].filename
               \in {temp_input("1"), temp_input("2")}
        /\ input.dirs[d].entries[e].content.parsed}

\* the sensors returned for the value file at position e of directory d
ReturnedFor(d, e) ==
    {k \in 1..Len(output[1]) :
        output[1][k].file_path =
            <<hwmon_name(d), input.dirs[d].entries[e].filename>>}

\* C29: the collect call returns one sensor for every value file that can be
\* read and parsed, with the value of that file, whatever happens to the
\* other value files of the same device or of other devices, and nothing
\* else: a value file that cannot be read or parsed costs only its own
\* sensor.  When the devices cannot be enumerated the call returns the empty
\* list.
UnreadableSensorOmittedAlone ==
    Len(output) = 1 =>
        /\ ~input.readable => output[1] = <<>>
        /\ input.readable =>
              /\ \A f \in ReadableValueFiles :
                    /\ Cardinality(ReturnedFor(f[1], f[2])) = 1
                    /\ \A k \in ReturnedFor(f[1], f[2]) :
                          output[1][k].temperature.num =
                              input.dirs[f[1]].entries[f[2]].content.millidegrees
              /\ Len(output[1]) = Cardinality(ReadableValueFiles)

\* a device holds a value file that cannot be parsed before one that can,
\* another device holds a readable one: two sensors are returned
UnreadableSensorOmittedAloneWitness ==
    /\ Len(output) = 1
    /\ input.readable
    /\ Len(input.dirs) = 2
    /\ Len(input.dirs[1].entries) = 2
    /\ ~input.dirs[1].entries[1].content.parsed
    /\ input.dirs[1].entries[1].filename = temp_input("1")
    /\ input.dirs[1].entries[2].content.parsed
    /\ Len(output[1]) = 2

====
